---- MODULE Spec2Model ----
(***************************************************************************)
(* The main loop of oscillatord (src/oscillatord.c): one PPS phase-error   *)
(* sample per iteration is waited for, read, merged with the oscillator    *)
(* and GNSS state, handed to od_process, and the requested action is       *)
(* dispatched.  The process is a single thread; the only concurrency is    *)
(* the SIGINT/SIGTERM handler, which may run between any two steps.        *)
(*                                                                         *)
(* Each action below is one step of main() between two points at which the *)
(* signal handler can be observed: a library or system call together with  *)
(* the checks the code makes on its result.                                *)
(***************************************************************************)
EXTENDS Integers, Sequences, FiniteSets, TLC

(***************************************************************************)
(* Bounds.  `turns' is an unsigned int (2^32 values); the model keeps the  *)
(* modular arithmetic but scales the width down to UIntBits bits so that   *)
(* the wrap-around of the counter is within reach of the model checker.    *)
(***************************************************************************)
UIntBits == 3

Min(a, b) == IF a < b THEN a ELSE b

RECURSIVE Pow2(_)
Pow2(n) == IF n = 0 THEN 1 ELSE 2 * Pow2(n - 1)

UINT_MOD == Pow2(UIntBits)

\* largest configured number of turns the model starts from
MaxConfigTurns == 4

\* values of the "turns" configuration key after the conversion of line 113
ConfigTurns == 0 .. Min(MaxConfigTurns, UINT_MOD - 1)

NS_IN_SECOND == 1000000000

\* range of int32_t and of int
INT32_MAX == 2147483647

INT32_MIN == -INT32_MAX - 1

\* phase-error samples delivered by read() on the PPS device (int32_t, ns)
PhaseSamples == {INT32_MIN, -1500000000, -5, 7}

\* temperatures reported by oscillator_get_temp on success (uint16_t)
TempValues == {25}

\* what the uint16_t temperature can hold (0 is the -ENOSYS default)
TempDomain == TempValues \cup {0}

\* control values reported by oscillator_get_ctrl
CtrlSnapshots ==
    { [fine_ctrl |-> 10, coarse_ctrl |-> 20, lock |-> TRUE],
      [fine_ctrl |-> 11, coarse_ctrl |-> 20, lock |-> FALSE] }

\* enum output_action of the disciplining library, plus a value outside it
OutputActions ==
    {"NONE", "ADJUST_FINE", "ADJUST_COARSE", "PHASE_JUMP", "CALIBRATE", "OTHER"}

\* output.value_phase_ctrl values (int32_t, ns)
PhaseCtrlValues == {200, -3}

Outputs ==
    [action : OutputActions, setpoint : {1500}, value_phase_ctrl : PhaseCtrlValues]

\* content of `output' before od_process has filled it in this iteration
NoOutput == [action |-> "NONE", setpoint |-> 0, value_phase_ctrl |-> 0]

\* content of `input' before line 235 has built it in this iteration
NoInput ==
    [sec |-> 0, nsec |-> 0, valid |-> FALSE, lock |-> FALSE,
     temperature |-> 0, fine_setpoint |-> 0, coarse_setpoint |-> 0]

GnssResults == {"GNSS_INVALID", "GNSS_WAITING", "GNSS_VALID", "GNSS_ERROR"}

\* C integer division and remainder: the quotient is truncated towards zero
\* (b > 0; \div rounds down, so a negative inexact quotient is one too low)
TruncDiv(a, b) ==
    IF a < 0 /\ a % b # 0 THEN (a \div b) + 1 ELSE a \div b

TruncRem(a, b) == a - b * TruncDiv(a, b)

VARIABLES
    pc,               \* position of main(); where it stopped, once exited
    loop,             \* static volatile int loop (line 41)
    turns,            \* unsigned int turns, modulo UINT_MOD
    cfgTurns,         \* the configured value turns started from
    sign,             \* +1, or -1 when opposite-phase-error is set
    ignore_next_irq,  \* line 95
    phase_error,      \* last sample read from the PPS device
    temperature,
    pps_valid,
    ctrl_values,
    input,            \* struct od_input handed to od_process
    output,           \* struct od_output filled by od_process
    exit_status,      \* "running", "EXIT_SUCCESS" or "EXIT_FAILURE"
    exit_cause,       \* which call ended the process
    handles,          \* od, fd and oscillator of lines 91-94, and the
                      \* od_destroy calls made (history)
    iterations,       \* history: loop iterations started
    ops,              \* history: calls made in the current iteration
    signals,          \* history: termination signals delivered
    waits_after_stop, \* history: select() calls started with loop = false
    since_jump        \* history: samples read since the last phase jump

vars ==
    << pc, loop, turns, cfgTurns, sign, ignore_next_irq, phase_error,
       temperature, pps_valid, ctrl_values, input, output, exit_status,
       exit_cause, handles, iterations, ops, signals, waits_after_stop,
       since_jump >>

\* variables of main() other than the control state
locals ==
    << phase_error, temperature, pps_valid, ctrl_values, input, output >>

Op(name, res, arg) == [op |-> name, res |-> res, arg |-> arg]

Did(name, res, arg) == ops' = Append(ops, Op(name, res, arg))

HasOp(name) == \E i \in 1 .. Len(ops) : ops[i].op = name

CountOp(name) == Cardinality({i \in 1 .. Len(ops) : ops[i].op = name})

LastOp == IF ops = << >> THEN Op("none", "", 0) ELSE ops[Len(ops)]

\* error(EXIT_FAILURE, ...): prints the diagnostic and calls exit(), which
\* does not run the cleanup handlers of the variables of main()
Fatal(cause) ==
    /\ pc' = pc
    /\ exit_status' = "EXIT_FAILURE"
    /\ exit_cause' = cause

\* abort(): the process is killed by SIGABRT
Aborted(cause) ==
    /\ pc' = pc
    /\ exit_status' = "SIGABRT"
    /\ exit_cause' = cause

Running == exit_status = "running"

Exited == exit_status # "running"

\* main() is at label l and the process has not exited
At(l) == Running /\ pc = l

Goto(l) ==
    /\ pc' = l
    /\ UNCHANGED << exit_status, exit_cause >>

Init ==
    /\ pc = "top"
    /\ loop = TRUE
    /\ cfgTurns \in ConfigTurns
    /\ turns = cfgTurns
    /\ sign \in {1, -1}
    /\ ignore_next_irq = FALSE
    /\ phase_error \in PhaseSamples
    /\ temperature \in TempDomain
    /\ pps_valid = FALSE
    /\ ctrl_values \in CtrlSnapshots
    /\ input = NoInput
    /\ output = NoOutput
    /\ exit_status = "running"
    /\ exit_cause = "none"
    /\ handles = [od |-> "live", fd |-> "open", oscillator |-> "live",
                  od_destroy_calls |-> << >>]
    /\ iterations = 0
    /\ ops = << >>
    /\ signals = 0
    /\ waits_after_stop = 0
    /\ since_jump = -1

(***************************************************************************)
(* do { turns--; FD_ZERO; FD_SET; tv = ...          (lines 165-171)        *)
(* `input' and `output' are rebuilt (lines 235, 258) before anything reads *)
(* them in an iteration, so their old content is dropped here.             *)
(***************************************************************************)
DecTurns(t) == (t + UINT_MOD - 1) % UINT_MOD

LoopTop ==
    /\ At("top")
    /\ turns' = DecTurns(turns)
    /\ iterations' = Min(iterations + 1, UINT_MOD + 1)
    /\ ops' = << >>
    /\ input' = NoInput
    /\ output' = NoOutput
    /\ Goto("select")
    /\ UNCHANGED << handles, loop, cfgTurns, sign, ignore_next_irq, phase_error,
                    temperature, pps_valid, ctrl_values, signals,
                    waits_after_stop, since_jump >>

(***************************************************************************)
(* ret = select(...); switch (ret)                  (lines 172-183)        *)
(***************************************************************************)
SelectResults == {"DATA_READY", "TIMEOUT", "EINTR", "ERROR"}

\* a select() that treats the timeout as one more transient failure
OnSelect_TimeoutRetry(r) ==
    CASE r = "TIMEOUT" -> Goto("cond")
      [] r = "EINTR"   -> Goto("cond")
      [] r = "ERROR"   -> Fatal("select")
      [] OTHER         -> Goto("read")

\* a select() whose EINTR is reported like any other failure
OnSelect_EintrFatal(r) ==
    CASE r = "TIMEOUT" -> Fatal("timeout")
      [] r = "EINTR"   -> Fatal("select")
      [] r = "ERROR"   -> Fatal("select")
      [] OTHER         -> Goto("read")

OnSelect(r) ==
    CASE r = "TIMEOUT" -> Fatal("timeout")
      [] r = "EINTR"   -> Goto("cond")
      [] r = "ERROR"   -> Fatal("select")
      [] OTHER         -> Goto("read")

Select ==
    /\ At("select")
    /\ \E r \in SelectResults :
          /\ Did("select", r, 0)
          /\ OnSelect(r)
    /\ waits_after_stop' =
          IF loop THEN waits_after_stop ELSE Min(waits_after_stop + 1, 2)
    /\ UNCHANGED << handles, loop, turns, cfgTurns, sign, ignore_next_irq, locals,
                    iterations, signals, since_jump >>

(***************************************************************************)
(* sret = read(fd, &phase_error, ...)               (lines 185-192)        *)
(***************************************************************************)
ReadResults == {"OK", "EAGAIN", "EINTR", "ERROR"}

\* a read() whose would-block failure falls through to the rest of the body
OnRead_EagainFallsThrough(r) ==
    CASE r \in {"OK", "EAGAIN"} -> Goto("ignore")
      [] r = "EINTR"             -> Goto("cond")
      [] OTHER                   -> Fatal("read")

OnRead(r) ==
    CASE r = "OK"                -> Goto("ignore")
      [] r \in {"EAGAIN", "EINTR"} -> Goto("cond")
      [] OTHER                   -> Fatal("read")

ReadPhaseError ==
    /\ At("read")
    /\ \E r \in ReadResults, s \in PhaseSamples :
          /\ Did("read", r, IF r = "OK" THEN s ELSE 0)
          /\ OnRead(r)
          /\ phase_error' = IF r = "OK" THEN s ELSE phase_error
          /\ since_jump' = IF r = "OK" /\ since_jump \in {0, 1}
                             THEN since_jump + 1 ELSE since_jump
    /\ UNCHANGED << handles, loop, turns, cfgTurns, sign, ignore_next_irq,
                    temperature, pps_valid, ctrl_values, input, output,
                    iterations, signals, waits_after_stop >>

(***************************************************************************)
(* if (ignore_next_irq) { ignore_next_irq = false; continue; }             *)
(*                                                  (lines 195-199)        *)
(***************************************************************************)
\* the discard without the reset of the flag
AfterRead_NoClear(ign) ==
    IF ign THEN [pc |-> "cond", ign |-> TRUE, skip |-> TRUE]
           ELSE [pc |-> "temp", ign |-> FALSE, skip |-> FALSE]

AfterRead(ign) ==
    IF ign THEN [pc |-> "cond", ign |-> FALSE, skip |-> TRUE]
           ELSE [pc |-> "temp", ign |-> FALSE, skip |-> FALSE]

IgnoreCheck ==
    /\ At("ignore")
    /\ LET a == AfterRead(ignore_next_irq) IN
          /\ Goto(a.pc)
          /\ ignore_next_irq' = a.ign
          /\ ops' = IF a.skip THEN Append(ops, Op("discard", "", 0)) ELSE ops
    /\ UNCHANGED << handles, loop, turns, cfgTurns, sign, locals, iterations, signals,
                    waits_after_stop, since_jump >>

(***************************************************************************)
(* ret = oscillator_get_temp(oscillator, &temperature)  (lines 201-206)    *)
(***************************************************************************)
TempResults == {"OK", "ENOSYS", "ERROR"}

\* an unsupported sensor that leaves the temperature as it was
OnTemp_EnosysKeepsOld(r, t, old) ==
    CASE r = "OK"     -> [fatal |-> FALSE, temperature |-> t]
      [] r = "ENOSYS" -> [fatal |-> FALSE, temperature |-> old]
      [] OTHER        -> [fatal |-> TRUE, temperature |-> old]

OnTemp(r, t, old) ==
    CASE r = "OK"     -> [fatal |-> FALSE, temperature |-> t]
      [] r = "ENOSYS" -> [fatal |-> FALSE, temperature |-> 0]
      [] OTHER        -> [fatal |-> TRUE, temperature |-> old]

GetTemp ==
    /\ At("temp")
    /\ \E r \in TempResults, t \in TempValues :
          LET a == OnTemp(r, t, temperature) IN
             /\ Did("get_temp", r, IF r = "OK" THEN t ELSE 0)
             /\ IF a.fatal THEN Fatal("oscillator_get_temp") ELSE Goto("gnss")
             /\ temperature' = a.temperature
    /\ UNCHANGED << handles, loop, turns, cfgTurns, sign, ignore_next_irq,
                    phase_error, pps_valid, ctrl_values, input, output,
                    iterations, signals, waits_after_stop, since_jump >>

(***************************************************************************)
(* ret = gnss_get_data(&gnss); switch (ret)         (lines 208-224)        *)
(***************************************************************************)
\* a receiver still waiting for a fix taken as a usable one
OnGnss_WaitingValid(r) ==
    CASE r \in {"GNSS_VALID", "GNSS_WAITING"} -> [fatal |-> FALSE, pps_valid |-> TRUE]
      [] r = "GNSS_ERROR" -> [fatal |-> TRUE, pps_valid |-> FALSE]
      [] OTHER            -> [fatal |-> FALSE, pps_valid |-> FALSE]

OnGnss(r) ==
    CASE r = "GNSS_VALID" -> [fatal |-> FALSE, pps_valid |-> TRUE]
      [] r = "GNSS_ERROR" -> [fatal |-> TRUE, pps_valid |-> FALSE]
      [] OTHER            -> [fatal |-> FALSE, pps_valid |-> FALSE]

GnssGetData ==
    /\ At("gnss")
    /\ \E r \in GnssResults :
          LET a == OnGnss(r) IN
             /\ Did("gnss_get_data", r, 0)
             /\ IF a.fatal THEN Fatal("gnss_get_data") ELSE Goto("ctrl")
             /\ pps_valid' = a.pps_valid
    /\ UNCHANGED << handles, loop, turns, cfgTurns, sign, ignore_next_irq,
                    phase_error, temperature, ctrl_values, input, output,
                    iterations, signals, waits_after_stop, since_jump >>

(***************************************************************************)
(* struct oscillator_ctrl ctrl_values;                                     *)
(* oscillator_get_ctrl(oscillator, &ctrl_values);   (lines 226-230)        *)
(* The return value is not looked at.  ctrl_values is declared in the loop *)
(* body without an initializer: when the call fails it holds an            *)
(* indeterminate value, any of CtrlSnapshots.                              *)
(***************************************************************************)
CtrlResults == {"OK", "FAIL"}

GetCtrl ==
    /\ At("ctrl")
    /\ \E r \in CtrlResults, c \in CtrlSnapshots :
          /\ Did("get_ctrl", r, 0)
          /\ ctrl_values' = c
    /\ Goto("build")
    /\ UNCHANGED << handles, loop, turns, cfgTurns, sign, ignore_next_irq,
                    phase_error, temperature, pps_valid, input, output,
                    iterations, signals, waits_after_stop, since_jump >>

(***************************************************************************)
(* input = (struct od_input) { ... }                (lines 233-255)        *)
(***************************************************************************)
\* sign * phase_error, an int multiplication.  -1 * INT32_MIN overflows,
\* which is undefined: the build either wraps around to INT32_MIN or, when
\* compiled to trap on overflow, aborts the process.
SignTimesSample(sgn, sample) ==
    IF sgn = -1 /\ sample = INT32_MIN
      THEN { [trap |-> FALSE, val |-> INT32_MIN], [trap |-> TRUE, val |-> 0] }
      ELSE { [trap |-> FALSE, val |-> sgn * sample] }

MakeInput(eff, valid, ctrl, temp) ==
    [sec             |-> TruncDiv(eff, NS_IN_SECOND),
     nsec            |-> TruncRem(eff, NS_IN_SECOND),
     valid           |-> valid,
     lock            |-> ctrl.lock,
     temperature     |-> temp,
     fine_setpoint   |-> ctrl.fine_ctrl,
     coarse_setpoint |-> ctrl.coarse_ctrl]

BuildInput ==
    /\ At("build")
    /\ \E m \in SignTimesSample(sign, phase_error) :
          IF m.trap
            THEN /\ Aborted("overflow_trap")
                 /\ input' = input
            ELSE /\ Goto("process")
                 /\ input' = MakeInput(m.val, pps_valid, ctrl_values,
                                       temperature)
    /\ UNCHANGED << handles, loop, turns, cfgTurns, sign, ignore_next_irq,
                    phase_error, temperature, pps_valid, ctrl_values, output,
                    iterations, ops, signals, waits_after_stop, since_jump >>

(***************************************************************************)
(* ret = od_process(od, &input, &output);           (lines 257-273)        *)
(***************************************************************************)
ProcessResults == {"OK", "ERROR"}

\* a failed od_process taken as one more transient failure
OnProcess_Retry(r) == IF r = "OK" THEN Goto("dispatch") ELSE Goto("cond")

OnProcess(r) == IF r = "OK" THEN Goto("dispatch") ELSE Fatal("od_process")

OdProcess ==
    /\ At("process")
    /\ \E r \in ProcessResults, o \in Outputs :
          /\ Did("od_process", r, 0)
          /\ OnProcess(r)
          /\ output' = IF r = "OK" THEN o ELSE output
    /\ UNCHANGED << handles, loop, turns, cfgTurns, sign, ignore_next_irq,
                    phase_error, temperature, pps_valid, ctrl_values, input,
                    iterations, signals, waits_after_stop, since_jump >>

(***************************************************************************)
(* The dispatch of lines 275-299: which branch an action value takes.      *)
(***************************************************************************)
\* a dispatch whose phase jump also reaches the default branch
Branch_JumpFallsThrough(action) ==
    CASE action = "CALIBRATE"  -> "calibrate"
      [] OTHER                 -> "apply_output"

Branch(action) ==
    CASE action = "PHASE_JUMP" -> "phase_jump"
      [] action = "CALIBRATE"  -> "calibrate"
      [] OTHER                 -> "apply_output"

(***************************************************************************)
(* ret = apply_phase_offset(fd, device, -output.value_phase_ctrl);         *)
(* write(fd, &phase_error, 4)               (lines 53-67 and 275-280)      *)
(***************************************************************************)
WriteResults == {"OK", "ERROR"}

\* the correction written without the negation
JumpValue_NotNegated(v) == v

JumpValue(v) == -v

OnWrite(r, ign) ==
    IF r = "OK" THEN [fatal |-> FALSE, ign |-> TRUE]
                ELSE [fatal |-> TRUE, ign |-> ign]

PhaseJump ==
    /\ At("dispatch")
    /\ Branch(output.action) = "phase_jump"
    /\ \E r \in WriteResults :
          LET a == OnWrite(r, ignore_next_irq) IN
             /\ Did("write", r, JumpValue(output.value_phase_ctrl))
             /\ IF a.fatal THEN Fatal("apply_phase_offset") ELSE Goto("sleep")
             /\ ignore_next_irq' = a.ign
             /\ since_jump' = IF a.fatal THEN since_jump ELSE 0
    /\ UNCHANGED << handles, loop, turns, cfgTurns, sign, locals, iterations, signals,
                    waits_after_stop >>

(***************************************************************************)
(* The calibration branch                           (lines 281-293)        *)
(***************************************************************************)
PtrResults == {"OK", "NULL"}

\* the calibration run started without a look at the parameters
OnCalibParams_Unchecked(r) == Goto("calib_run")

OnCalibParams(r) ==
    IF r = "NULL" THEN Fatal("od_get_calibration_parameters")
                  ELSE Goto("calib_run")

CalibGetParams ==
    /\ At("dispatch")
    /\ Branch(output.action) = "calibrate"
    /\ \E r \in PtrResults :
          /\ Did("od_get_calibration_parameters", r, 0)
          /\ OnCalibParams(r)
    /\ UNCHANGED << handles, loop, turns, cfgTurns, sign, ignore_next_irq, locals,
                    iterations, signals, waits_after_stop, since_jump >>

OnCalibResults(r) ==
    IF r = "NULL" THEN Fatal("oscillator_calibrate")
                  ELSE Goto("calib_submit")

CalibRun ==
    /\ At("calib_run")
    /\ \E r \in PtrResults :
          /\ Did("oscillator_calibrate", r, 0)
          /\ OnCalibResults(r)
    /\ UNCHANGED << handles, loop, turns, cfgTurns, sign, ignore_next_irq, locals,
                    iterations, signals, waits_after_stop, since_jump >>

CalibSubmit ==
    /\ At("calib_submit")
    /\ Did("od_calibrate", "OK", 0)
    /\ Goto("sleep")
    /\ UNCHANGED << handles, loop, turns, cfgTurns, sign, ignore_next_irq, locals,
                    iterations, signals, waits_after_stop, since_jump >>

(***************************************************************************)
(* ret = oscillator_apply_output(oscillator, &output);  (lines 294-299)    *)
(***************************************************************************)
ApplyResults == {"OK", "ERROR"}

OnApply(r) ==
    IF r = "OK" THEN Goto("sleep") ELSE Fatal("oscillator_apply_output")

ApplyOutput ==
    /\ At("dispatch")
    /\ Branch(output.action) = "apply_output"
    /\ \E r \in ApplyResults :
          /\ Did("apply_output", r, 0)
          /\ OnApply(r)
    /\ UNCHANGED << handles, loop, turns, cfgTurns, sign, ignore_next_irq, locals,
                    iterations, signals, waits_after_stop, since_jump >>

(***************************************************************************)
(* sleep(5);                                        (line 300)             *)
(***************************************************************************)
Sleep ==
    /\ At("sleep")
    /\ Did("sleep", "OK", 0)
    /\ Goto("cond")
    /\ UNCHANGED << handles, loop, turns, cfgTurns, sign, ignore_next_irq, locals,
                    iterations, signals, waits_after_stop, since_jump >>

(***************************************************************************)
(* } while (loop && turns != 1);                    (line 301)             *)
(* Every `continue' of the body lands here.                                *)
(***************************************************************************)
\* the loop left when the counter reaches 0
Continue_UntilZero(l, t) == l /\ t # 0

Continue(l, t) == l /\ t # 1

LoopCond ==
    /\ At("cond")
    /\ IF Continue(loop, turns) THEN Goto("top") ELSE Goto("after_loop")
    /\ UNCHANGED << handles, loop, turns, cfgTurns, sign, ignore_next_irq, locals,
                    iterations, ops, signals, waits_after_stop, since_jump >>

(***************************************************************************)
(* od_destroy(&od); return EXIT_SUCCESS;            (lines 303-305)        *)
(***************************************************************************)
\* od_destroy(struct od **): destroys a live context and clears the caller's
\* pointer; a null pointer is left alone
OdDestroy(h) ==
    [h EXCEPT !.od = IF @ = "live" THEN "null" ELSE @,
              !.od_destroy_calls = Append(@, h.od)]

\* fd_cleanup(int *): closes the descriptor
FdCleanup(h) == [h EXCEPT !.fd = "closed"]

\* oscillator_factory_destroy(struct oscillator **)
OscillatorFactoryDestroy(h) == [h EXCEPT !.oscillator = "null"]

Call(name, h) ==
    CASE name = "od_destroy" -> OdDestroy(h)
      [] name = "fd_cleanup" -> FdCleanup(h)
      [] OTHER               -> OscillatorFactoryDestroy(h)

RECURSIVE CallAll(_, _)
CallAll(names, h) ==
    IF names = << >> THEN h
    ELSE CallAll(Tail(names), Call(Head(names), h))

\* a return path on which nothing destroys the decision-engine context
ReturnCalls_NoOdDestroy == << "oscillator_factory_destroy", "fd_cleanup" >>

\* the call of line 303, then the cleanup handlers of the variables of
\* lines 91-94, run at the return in the reverse order of declaration
ReturnCalls ==
    << "od_destroy", "oscillator_factory_destroy", "fd_cleanup", "od_destroy" >>

CleanExit ==
    /\ At("after_loop")
    /\ pc' = pc
    /\ handles' = CallAll(ReturnCalls, handles)
    /\ exit_status' = "EXIT_SUCCESS"
    /\ exit_cause' = "return"
    /\ UNCHANGED << loop, turns, cfgTurns, sign, ignore_next_irq, locals,
                    iterations, ops, signals, waits_after_stop, since_jump >>

(***************************************************************************)
(* signal_handler, installed for SIGINT and SIGTERM (lines 41-51, 161-162) *)
(* It runs between any two steps of main().                                *)
(***************************************************************************)
\* a handler that only ever clears the flag
SignalHandler_NeverExits(l) == [exit |-> FALSE, loop |-> FALSE]

SignalHandler(l) ==
    IF ~l THEN [exit |-> TRUE, loop |-> l]
          ELSE [exit |-> FALSE, loop |-> FALSE]

Signal ==
    /\ Running
    /\ LET h == SignalHandler(loop) IN
          /\ loop' = h.loop
          /\ IF h.exit THEN Fatal("signal_handler")
                       ELSE UNCHANGED << pc, exit_status, exit_cause >>
    /\ signals' = Min(signals + 1, 2)
    /\ UNCHANGED << handles, turns, cfgTurns, sign, ignore_next_irq, locals,
                    iterations, ops, waits_after_stop, since_jump >>

\* the steps of main()
Main ==
    \/ LoopTop
    \/ Select
    \/ ReadPhaseError
    \/ IgnoreCheck
    \/ GetTemp
    \/ GnssGetData
    \/ GetCtrl
    \/ BuildInput
    \/ OdProcess
    \/ PhaseJump
    \/ CalibGetParams
    \/ CalibRun
    \/ CalibSubmit
    \/ ApplyOutput
    \/ Sleep
    \/ LoopCond
    \/ CleanExit

Next == Main \/ Signal

Spec == Init /\ [][Next]_vars

TypeOK ==
    /\ pc \in {"top", "select", "read", "ignore", "temp", "gnss", "ctrl",
               "build", "process", "dispatch", "calib_run", "calib_submit",
               "sleep", "cond", "after_loop"}
    /\ loop \in BOOLEAN
    /\ turns \in 0 .. (UINT_MOD - 1)
    /\ ignore_next_irq \in BOOLEAN
    /\ exit_status \in {"running", "EXIT_SUCCESS", "EXIT_FAILURE", "SIGABRT"}
    /\ (exit_cause = "none") = Running

(***************************************************************************)
(* Properties                                                              *)
(***************************************************************************)
Ops == 1 .. Len(ops)

\* the calls of State Collector, Decision Adapter and Action Dispatcher
ProcessingOps ==
    {"get_temp", "gnss_get_data", "get_ctrl", "od_process", "write",
     "od_get_calibration_parameters", "oscillator_calibrate", "od_calibrate",
     "apply_output", "sleep"}

ProcessingPcs ==
    {"temp", "gnss", "ctrl", "build", "process", "dispatch", "calib_run",
     "calib_submit"}

\* the input of this iteration has been built
Built == pc = "process" \/ HasOp("od_process")

\* C1: a select() result of 0 (TIMEOUT) ends the process with a failure
\* status whatever the loop state was, and it is the last call the process
\* makes: no read, od_process, oscillator call or PPS write follows it.
C1_TimeoutIsFatal ==
    \A i \in Ops :
       (ops[i].op = "select" /\ ops[i].res = "TIMEOUT") =>
          /\ i = Len(ops)
          /\ exit_status = "EXIT_FAILURE"
          /\ exit_cause = "timeout"
          /\ pc = "select"

C1_Witness ==
    /\ exit_cause = "timeout"
    /\ LastOp = Op("select", "TIMEOUT", 0)
    /\ ignore_next_irq
    /\ ~loop
    /\ iterations >= 2

\* C2: after a phase jump whose write succeeded, the flag stays set through
\* transient failures, the first sample read afterwards is discarded without
\* any collector, od_process or dispatcher call and clears the flag, and the
\* next sample read is not discarded: exactly one sample is skipped.
C2_ExactlyOneSampleSkipped ==
    /\ since_jump = 0 => ignore_next_irq /\ ~HasOp("discard")
    /\ since_jump = 1 =>
          /\ ignore_next_irq = (pc = "ignore")
          /\ \A i \in Ops : ops[i].op \notin ProcessingOps
    /\ since_jump = 2 => ~ignore_next_irq /\ ~HasOp("discard")
    /\ pc \in ProcessingPcs => since_jump \in {-1, 2} /\ ~HasOp("discard")
    /\ HasOp("discard") => since_jump = 1 /\ LastOp.op = "discard"

C2_Witness ==
    /\ since_jump = 2
    /\ LastOp = Op("od_process", "OK", 0)
    /\ pc = "dispatch"
    /\ Running

\* C3: for a configured turns N >= 2 and no signal, every iteration started
\* (also one ending in a transient retry or a discarded sample) decrements
\* the counter, the loop is left after exactly N - 1 iterations, and the
\* process then returns EXIT_SUCCESS.
C3_TurnsMinusOneIterations ==
    (cfgTurns >= 2 /\ signals = 0) =>
       /\ iterations <= cfgTurns - 1
       /\ turns = cfgTurns - iterations
       /\ pc = "after_loop" => iterations = cfgTurns - 1
       /\ (pc = "after_loop" /\ Exited) => exit_status = "EXIT_SUCCESS"
       /\ exit_status = "EXIT_SUCCESS" => iterations = cfgTurns - 1
       /\ (At("cond") /\ iterations = cfgTurns - 1) => ~Continue(loop, turns)
       /\ (At("cond") /\ iterations < cfgTurns - 1) => Continue(loop, turns)

C3_Witness ==
    /\ cfgTurns = 3
    /\ signals = 0
    /\ iterations = 2
    /\ exit_status = "EXIT_SUCCESS"
    /\ LastOp = Op("read", "EAGAIN", 0)

\* C4: for every nonzero configured turns N, N = 1 included, the number of
\* iterations executed never exceeds N.
C4_IterationsAtMostTurns ==
    cfgTurns # 0 => iterations <= cfgTurns

\* C5: with turns unconfigured or 0 the counter never makes the loop end:
\* the loop is only left once the stop flag is set.
C5_ZeroTurnsUnbounded ==
    (cfgTurns = 0 /\ pc = "after_loop") => ~loop

\* C6: GNSS_INVALID and GNSS_WAITING never end the process and give
\* valid = false in the input of od_process; GNSS_VALID gives valid = true;
\* GNSS_ERROR ends the process with a failure status before od_process.
C6_GnssValidity ==
    \A i \in Ops :
       ops[i].op = "gnss_get_data" =>
          /\ ops[i].res \in {"GNSS_INVALID", "GNSS_WAITING"} =>
                /\ exit_cause # "gnss_get_data"
                /\ pc # "gnss"
                /\ ~pps_valid
                /\ Built => ~input.valid
          /\ ops[i].res = "GNSS_VALID" =>
                /\ exit_cause # "gnss_get_data"
                /\ pc # "gnss"
                /\ pps_valid
                /\ Built => input.valid
          /\ ops[i].res = "GNSS_ERROR" =>
                /\ i = Len(ops)
                /\ exit_status = "EXIT_FAILURE"
                /\ exit_cause = "gnss_get_data"

C6_Witness ==
    /\ At("dispatch")
    /\ \E i \in Ops : ops[i] = Op("gnss_get_data", "GNSS_WAITING", 0)
    /\ LastOp = Op("od_process", "OK", 0)
    /\ ~input.valid

IsCalibOp(o) ==
    o.op \in {"od_get_calibration_parameters", "oscillator_calibrate",
              "od_calibrate"}

CalibTrace == SelectSeq(ops, IsCalibOp)

CalibOrder ==
    << Op("od_get_calibration_parameters", "OK", 0),
       Op("oscillator_calibrate", "OK", 0),
       Op("od_calibrate", "OK", 0) >>

\* C8: CALIBRATE runs od_get_calibration_parameters, oscillator_calibrate
\* and od_calibrate in that order; a null parameter fetch ends the process
\* with a failure status and no calibration run; a null result ends it with
\* a failure status and no submission.
C8_CalibrationOrder ==
    LET n == Len(CalibTrace) IN
    /\ n <= 3
    /\ n > 0 => output.action = "CALIBRATE"
    /\ \A k \in 1 .. n :
          \/ CalibTrace[k] = CalibOrder[k]
          \/ /\ k = n
             /\ k < 3
             /\ CalibTrace[k] = Op(CalibOrder[k].op, "NULL", 0)
             /\ LastOp = CalibTrace[k]
             /\ exit_status = "EXIT_FAILURE"
             /\ exit_cause = CalibOrder[k].op
    /\ (output.action = "CALIBRATE" /\ pc \in {"sleep", "cond", "after_loop"})
          => n = 3
    /\ pc = "calib_run" => n >= 1
    /\ pc = "calib_submit" => n >= 2

C8_Witness ==
    /\ exit_cause = "od_get_calibration_parameters"
    /\ exit_status = "EXIT_FAILURE"
    /\ LastOp = Op("od_get_calibration_parameters", "NULL", 0)
    /\ ~HasOp("oscillator_calibrate")

\* C9: a first termination signal only sets the stop flag and leaves the
\* cycle in flight untouched; a select() interrupted with EINTR goes to the
\* loop condition and is never reported as an error; at most one select()
\* is started once the flag is set; with the flag set the loop condition
\* leaves the loop and, without a second signal, the process returns
\* EXIT_SUCCESS.
C9_FirstSignalStep ==
    (Running /\ loop /\ ~loop') =>
       /\ pc' = pc
       /\ exit_status' = exit_status
       /\ ops' = ops
       /\ UNCHANGED << handles, turns, ignore_next_irq, locals >>

C9_StopAtLoopCond ==
    /\ (At("cond") /\ ~loop /\ pc' # pc) => pc' = "after_loop"
    /\ (At("after_loop") /\ Exited' /\ signals' = signals)
          => exit_status' = "EXIT_SUCCESS"

C9_State ==
    /\ waits_after_stop <= 1
    /\ (LastOp.op = "select" /\ LastOp.res = "EINTR") =>
          /\ pc \in {"cond", "top", "after_loop"}
          /\ exit_cause \in {"none", "return", "signal_handler"}
    /\ signals = 1 => ~loop /\ exit_cause # "signal_handler"
    /\ (~loop /\ Exited /\ signals = 1 /\ exit_status = "EXIT_FAILURE")
          => exit_cause \notin {"none", "return", "signal_handler"}

C9_SingleSignalCooperative ==
    /\ [][C9_FirstSignalStep /\ C9_StopAtLoopCond]_vars
    /\ []C9_State

C9_Witness ==
    /\ signals = 1
    /\ ~loop
    /\ LastOp = Op("select", "EINTR", 0)
    /\ waits_after_stop = 1
    /\ exit_status = "EXIT_SUCCESS"

\* C10: once the stop flag is set and the process has not exited, a further
\* termination signal ends the process on the spot with a failure status,
\* wherever main() is, and no further step of the loop is executed.
C10_SecondSignalStep ==
    (Running /\ ~loop /\ (signals' # signals \/ loop' # loop)) =>
       /\ exit_status' = "EXIT_FAILURE"
       /\ exit_cause' = "signal_handler"
       /\ pc' = pc
       /\ ops' = ops
       /\ UNCHANGED << handles, turns, ignore_next_irq, locals >>

C10_State ==
    /\ signals = 2 =>
          /\ exit_status = "EXIT_FAILURE"
          /\ exit_cause = "signal_handler"
    /\ exit_cause = "signal_handler" => signals = 2 /\ ~loop

C10_SecondSignalExits ==
    /\ [][C10_SecondSignalStep]_vars
    /\ []C10_State

C10_Witness ==
    /\ exit_cause = "signal_handler"
    /\ exit_status = "EXIT_FAILURE"
    /\ pc = "calib_run"
    /\ LastOp = Op("od_get_calibration_parameters", "OK", 0)

\* C13: a failed oscillator_get_ctrl ends the process with a failure status,
\* and od_process is never called with setpoints or lock taken from a
\* failed controls read.
C13_CtrlFailureIsFatal ==
    \A i \in Ops :
       (ops[i].op = "get_ctrl" /\ ops[i].res = "FAIL") =>
          /\ i = Len(ops)
          /\ exit_status = "EXIT_FAILURE"
          /\ ~HasOp("od_process")

\* a transient failure ended the iteration whose calls are in ops
TransientEnd ==
    \/ LastOp.op = "select" /\ LastOp.res = "EINTR"
    \/ LastOp.op = "read" /\ LastOp.res \in {"EAGAIN", "EINTR"}

\* C14: after a transient failure the wait is entered again with turns and
\* ignore_next_irq as they were before the failed attempt, and the retry
\* alone (stop flag not set) never ends the loop.
C14_RetryStep ==
    /\ (At("top") /\ TransientEnd /\ pc' = "select") =>
          /\ turns' = turns
          /\ ignore_next_irq' = ignore_next_irq
    /\ (At("cond") /\ TransientEnd /\ loop) => pc' # "after_loop"

C14_RetryKeepsRunState == [][C14_RetryStep]_vars

\* the three things the dispatcher can do, by the call that starts each
DispatchStarts == {"write", "od_get_calibration_parameters", "apply_output"}

DispatchCount ==
    Cardinality({i \in Ops : ops[i].op \in DispatchStarts})

\* C15: after a successful od_process the dispatcher does exactly one of: the
\* PPS write (iff PHASE_JUMP), the calibration sub-flow (iff CALIBRATE), a
\* single apply_output (any other action value); apply_output is never
\* called in a PHASE_JUMP or CALIBRATE cycle and its failure ends the
\* process with a failure status.
C15_ExactlyOneDispatch ==
    /\ DispatchCount <= 1
    /\ DispatchCount = 1 =>
          /\ Len(ops) >= 2
          /\ \E i \in Ops :
                /\ ops[i] = Op("od_process", "OK", 0)
                /\ ops[i + 1].op \in DispatchStarts
    /\ HasOp("write") <=>
          (output.action = "PHASE_JUMP" /\ DispatchCount = 1)
    /\ HasOp("od_get_calibration_parameters") <=>
          (output.action = "CALIBRATE" /\ DispatchCount = 1)
    /\ HasOp("apply_output") <=>
          (output.action \notin {"PHASE_JUMP", "CALIBRATE"} /\ DispatchCount = 1)
    /\ pc \in {"calib_run", "calib_submit", "sleep"} => DispatchCount = 1
    /\ HasOp("sleep") => DispatchCount = 1
    /\ \A i \in Ops :
          (ops[i].op = "apply_output" /\ ops[i].res = "ERROR") =>
             /\ i = Len(ops)
             /\ exit_status = "EXIT_FAILURE"
             /\ exit_cause = "oscillator_apply_output"

C15_Witness ==
    /\ At("sleep")
    /\ output.action = "OTHER"
    /\ LastOp = Op("apply_output", "OK", 0)
    /\ DispatchCount = 1

\* C16: a negative result of od_process ends the process with a failure
\* status; it is the last call made: no apply_output, PPS write,
\* calibration step, wait or od_process follows it.
C16_ProcessFailureIsFatal ==
    \A i \in Ops :
       (ops[i].op = "od_process" /\ ops[i].res = "ERROR") =>
          /\ i = Len(ops)
          /\ pc = "process"
          /\ exit_status = "EXIT_FAILURE"
          /\ exit_cause = "od_process"
          /\ DispatchCount = 0

C16_Witness ==
    /\ exit_cause = "od_process"
    /\ LastOp = Op("od_process", "ERROR", 0)
    /\ exit_status = "EXIT_FAILURE"

\* C17: in a cycle that reaches the temperature read, -ENOSYS never ends
\* the process and gives temperature = 0 in the input of od_process; any
\* other negative result ends the process with a failure status before the
\* GNSS poll and od_process; on success the input carries the value read in
\* this cycle.
C17_Temperature ==
    \A i \in Ops :
       ops[i].op = "get_temp" =>
          /\ ops[i].res = "ENOSYS" =>
                /\ exit_cause # "oscillator_get_temp"
                /\ pc # "temp"
                /\ temperature = 0
                /\ Built => input.temperature = 0
          /\ ops[i].res = "OK" =>
                /\ exit_cause # "oscillator_get_temp"
                /\ pc # "temp"
                /\ temperature = ops[i].arg
                /\ Built => input.temperature = ops[i].arg
          /\ ops[i].res = "ERROR" =>
                /\ i = Len(ops)
                /\ pc = "temp"
                /\ exit_status = "EXIT_FAILURE"
                /\ exit_cause = "oscillator_get_temp"
                /\ ~HasOp("gnss_get_data")
                /\ ~HasOp("od_process")

C17_Witness ==
    /\ At("dispatch")
    /\ iterations >= 2
    /\ \E i \in Ops : ops[i] = Op("get_temp", "ENOSYS", 0)
    /\ LastOp = Op("od_process", "OK", 0)
    /\ input.temperature = 0

\* C18: every od_process call follows, in the same iteration, the one
\* successful read of that iteration and is given the sample of that read;
\* it is called at most once per read, never after a failed or discarded
\* read, and never in an iteration that started with ignore_next_irq set.
C18_OneFreshSamplePerCall ==
    /\ CountOp("od_process") <= 1
    /\ CountOp("read") <= 1
    /\ (Built \/ pc \in ProcessingPcs) =>
          /\ Len(ops) >= 2
          /\ ops[1] = Op("select", "DATA_READY", 0)
          /\ ops[2] = Op("read", "OK", phase_error)
          /\ ~HasOp("discard")
    /\ pc \in ProcessingPcs => since_jump \in {-1, 2}
    /\ Built =>
          \E m \in SignTimesSample(sign, ops[2].arg) :
             /\ ~m.trap
             /\ input.sec = TruncDiv(m.val, NS_IN_SECOND)
             /\ input.nsec = TruncRem(m.val, NS_IN_SECOND)
    /\ HasOp("discard") => ~HasOp("od_process")

C18_Witness ==
    /\ At("dispatch")
    /\ iterations >= 2
    /\ ops[2] = Op("read", "OK", -5)
    /\ LastOp = Op("od_process", "OK", 0)
    /\ sign = -1
    /\ input.sec = 0
    /\ input.nsec = 5

Sgn(x) == IF x > 0 THEN 1 ELSE IF x < 0 THEN -1 ELSE 0

\* C12: for every int32 sample s, the minimum included, and polarity p the
\* input of od_process has seconds * NS_IN_SECOND + nanoseconds = p * s,
\* nanoseconds has the sign of p * s when seconds = 0, and s = -1500000000
\* with p = -1 gives 1 s and 500000000 ns.  (-1 * INT32_MIN = 2^31 is
\* 2 s and 147483648 ns.)
C12_SplitRoundTrip ==
    Built =>
       LET s == ops[2].arg
           p == sign
       IN  IF p = -1 /\ s = INT32_MIN
             THEN input.sec = 2 /\ input.nsec = 147483648
             ELSE /\ input.sec * NS_IN_SECOND + input.nsec = p * s
                  /\ input.sec = 0 => Sgn(input.nsec) = Sgn(p * s)
                  /\ (s = -1500000000 /\ p = -1) =>
                        input.sec = 1 /\ input.nsec = 500000000

Released ==
    /\ handles.od = "null"
    /\ handles.fd = "closed"
    /\ handles.oscillator = "null"

\* C11: on every exit path, the fatal error exits included, the PPS device
\* descriptor, the oscillator handle and the decision-engine handle are
\* released before the process terminates.  (The exit on a second signal,
\* which is meant to bypass the cleanup, and the abort are left out.)
C11_ReleasedOnEveryExit ==
    (Exited /\ exit_cause \notin {"signal_handler", "overflow_trap"})
       => Released

LiveDestroys ==
    Cardinality({i \in 1 .. Len(handles.od_destroy_calls) :
                    handles.od_destroy_calls[i] = "live"})

====
